---- MODULE Spec2Model ----
(***************************************************************************)
(* Model of the two icon generator scripts:                                *)
(*   scripts/generate_icons_simple.py  (procedural variant, "simple")      *)
(*   scripts/generate_icons.py         (rendering variant,  "svg")         *)
(* A behaviour is one run of one script: the module-level statements, then *)
(* main() stage by stage, one loop iteration per step.  The file system,   *)
(* the external iconutil process and the image writers are the             *)
(* environment: their outcomes are chosen nondeterministically.            *)
(***************************************************************************)
EXTENDS Integers, Naturals, Sequences, FiniteSets, TLC

VARIABLES variant, pc, idx, resources_exists, iconset_exists, svg_exists,
          files, tmp_files, img, images, calls, writes, started,
          icns_calls, icns_result, log, exit_code, init_iconset, init_files

vars == <<variant, pc, idx, resources_exists, iconset_exists, svg_exists,
          files, tmp_files, img, images, calls, writes, started,
          icns_calls, icns_result, log, exit_code, init_iconset, init_files>>

----------------------------------------------------------------------------
(* Data                                                                    *)

RefSize == 1024

sizes_dup ==
  << <<16, "icon_16x16.png">>,     <<32, "icon_16x16@2x.png">>,
     <<32, "icon_32x32.png">>,     <<64, "icon_32x32@2x.png">>,
     <<64, "icon_64x64.png">>,     <<128, "icon_64x64@2x.png">>,
     <<128, "icon_128x128.png">>,  <<256, "icon_128x128@2x.png">>,
     <<256, "icon_256x256.png">>,  <<512, "icon_256x256@2x.png">>,
     <<512, "icon_512x512.png">>,  <<1024, "icon_512x512.png">>,
     <<1024, "icon_1024x1024.png">> >>

sizes ==
  << <<16, "icon_16x16.png">>,     <<32, "icon_16x16@2x.png">>,
     <<32, "icon_32x32.png">>,     <<64, "icon_32x32@2x.png">>,
     <<64, "icon_64x64.png">>,     <<128, "icon_64x64@2x.png">>,
     <<128, "icon_128x128.png">>,  <<256, "icon_128x128@2x.png">>,
     <<256, "icon_256x256.png">>,  <<512, "icon_256x256@2x.png">>,
     <<512, "icon_512x512.png">>,  <<1024, "icon_512x512@2x.png">>,
     <<1024, "icon_1024x1024.png">> >>

ico_sizes_extra == <<16, 24, 32, 48, 64, 128, 256>>

ico_sizes == <<16, 32, 48, 64, 128, 256>>

\* The file names of the 13 entries of sizes.
ManifestNames ==
  { "icon_16x16.png", "icon_16x16@2x.png", "icon_32x32.png",
    "icon_32x32@2x.png", "icon_64x64.png", "icon_64x64@2x.png",
    "icon_128x128.png", "icon_128x128@2x.png", "icon_256x256.png",
    "icon_256x256@2x.png", "icon_512x512.png", "icon_512x512@2x.png",
    "icon_1024x1024.png" }

ManifestSizes == {16, 32, 64, 128, 256, 512, 1024}

StaleName == "stale.png"

IconsetPaths == ManifestNames \cup {StaleName}

TopPaths == {"icon.png", "icon.icns", "icon.ico"}

AllPaths == IconsetPaths \cup TopPaths

\* An absent file; a present file is the <<width, height>> of its canvas.
None == <<0, 0>>

NoImage == [size |-> 0]

----------------------------------------------------------------------------
(* create_bot_icon                                                         *)

\* int(k * scale) with scale = size / 1024 computed by the mutant as the
\* integer quotient size // 1024.
ScaledIntFloorDiv(k, size) == k * (size \div RefSize)

\* int(k * scale) replaced by round-half-up of k * size / 1024.
ScaledIntRound(k, size) == (2 * k * size + RefSize) \div (2 * RefSize)

\* int(k * scale), scale = size / 1024: the product is exact in binary
\* floating point for the sizes of a run, int() truncates toward zero.
ScaledInt(k, size) == (k * size) \div RefSize

\* Image.new('RGBA', (size, size), (0, 0, 0, 0))
NewCanvas(size) == <<size, size>>

CreateBotIcon(size) ==
  LET margin        == ScaledInt(102, size)
      bg_size       == ScaledInt(820, size)
      corner_radius == ScaledInt(180, size)
      center_x      == size \div 2
      center_y      == size \div 2
      head_width    == ScaledInt(360, size)
      head_height   == ScaledInt(280, size)
      head_x        == center_x - (head_width \div 2)
      head_y        == center_y - ScaledInt(120, size)
      head_corner   == ScaledInt(40, size)
      antenna_width == ScaledInt(12, size)
      antenna_top   == center_y - ScaledInt(200, size)
      antenna_bottom== center_y - ScaledInt(120, size)
      ball_radius   == ScaledInt(24, size)
      eye_radius    == ScaledInt(32, size)
      left_eye_x    == center_x - ScaledInt(80, size)
      eye_y         == center_y - ScaledInt(40, size)
      right_eye_x   == center_x + ScaledInt(80, size)
      mouth_y       == center_y + ScaledInt(40, size)
      mouth_width   == ScaledInt(120, size)
      mouth_height  == ScaledInt(40, size)
      mouth_stroke  == ScaledInt(12, size)
      ear_width     == ScaledInt(40, size)
      ear_height    == ScaledInt(80, size)
      ear_corner    == ScaledInt(20, size)
      left_ear_x    == center_x - ScaledInt(220, size)
      ear_y         == center_y - ScaledInt(60, size)
      right_ear_x   == center_x + ScaledInt(180, size)
  IN [ size          |-> size,
       canvas        |-> NewCanvas(size),
       center_x      |-> center_x,
       center_y      |-> center_y,
       margin        |-> margin,
       bg_size       |-> bg_size,
       corner_radius |-> corner_radius,
       head_width    |-> head_width,
       head_height   |-> head_height,
       head_corner   |-> head_corner,
       antenna_width |-> antenna_width,
       ball_radius   |-> ball_radius,
       eye_radius    |-> eye_radius,
       mouth_width   |-> mouth_width,
       mouth_height  |-> mouth_height,
       mouth_stroke  |-> mouth_stroke,
       ear_width     |-> ear_width,
       ear_height    |-> ear_height,
       ear_corner    |-> ear_corner,
       off120        |-> center_y - head_y,
       off200        |-> center_y - antenna_top,
       off80         |-> center_x - left_eye_x,
       off40         |-> center_y - eye_y,
       off220        |-> center_x - left_ear_x,
       off180        |-> right_ear_x - center_x,
       off60         |-> center_y - ear_y,
       shapes        |->
         [ background |-> <<margin, margin, margin + bg_size, margin + bg_size>>,
           head       |-> <<head_x, head_y, head_x + head_width, head_y + head_height>>,
           antenna    |-> <<center_x, antenna_top, center_x, antenna_bottom>>,
           ball       |-> <<center_x - ball_radius, antenna_top - ball_radius,
                            center_x + ball_radius, antenna_top + ball_radius>>,
           left_eye   |-> <<left_eye_x - eye_radius, eye_y - eye_radius,
                            left_eye_x + eye_radius, eye_y + eye_radius>>,
           right_eye  |-> <<right_eye_x - eye_radius, eye_y - eye_radius,
                            right_eye_x + eye_radius, eye_y + eye_radius>>,
           mouth      |-> <<center_x - (mouth_width \div 2), mouth_y - (mouth_height \div 2),
                            center_x + (mouth_width \div 2), mouth_y + (mouth_height \div 2)>>,
           left_ear   |-> <<left_ear_x, ear_y, left_ear_x + ear_width, ear_y + ear_height>>,
           right_ear  |-> <<right_ear_x, ear_y, right_ear_x + ear_width, ear_y + ear_height>> ] ]

ShapeNames == {"background", "head", "antenna", "ball", "left_eye",
               "right_eye", "mouth", "left_ear", "right_ear"}

----------------------------------------------------------------------------
(* The run                                                                 *)

Init ==
  /\ variant \in {"simple", "svg"}
  /\ pc = "import"
  /\ idx = 1
  /\ resources_exists \in BOOLEAN
  /\ iconset_exists \in BOOLEAN
  /\ (iconset_exists => resources_exists)
  /\ svg_exists \in BOOLEAN
  /\ (svg_exists => resources_exists)
  /\ \E stale \in BOOLEAN :
       /\ (stale => iconset_exists)
       /\ files = [p \in AllPaths |->
                     IF p = StaleName /\ stale THEN <<16, 16>> ELSE None]
  /\ tmp_files = {}
  /\ img = NoImage
  /\ images = <<>>
  /\ calls = {}
  /\ writes = <<>>
  /\ started = {}
  /\ icns_calls = 0
  /\ icns_result = "none"
  /\ log = {}
  /\ exit_code = -1
  /\ init_iconset = iconset_exists
  /\ init_files = files

----------------------------------------------------------------------------
(* Control flow of main() and the handlers                                 *)

\* main() with generate_icns called before generate_iconset.
StageAfterIcnsEarly(stage) ==
  CASE stage = "main_png" -> "icns"
    [] stage = "icns"     -> "iconset"
    [] stage = "iconset"  -> "ico"
    [] stage = "ico"      -> "finish"

\* The order of the four calls in the try block of main().
StageAfter(stage) ==
  CASE stage = "main_png" -> "iconset"
    [] stage = "iconset"  -> "icns"
    [] stage = "icns"     -> "ico"
    [] stage = "ico"      -> "finish"

IcnsOutcomes == {"ok", "nonzero", "notfound", "oserror"}

\* generate_icns without the FileNotFoundError clause.
IcnsCaughtOnlyNonzero(outcome) == outcome = "nonzero"

\* except subprocess.CalledProcessError / except FileNotFoundError.
IcnsCaught(outcome) == outcome \in {"nonzero", "notfound"}

\* generate_ico without its try/except.
IcoCaughtNothing(err) == FALSE

\* except Exception in generate_ico.
IcoCaught(err) == err \in {"convert", "save"}

\* cairosvg.svg2png(output_width=size, output_height=size)
SvgToPng(size) == <<size, size>>

\* except Exception in main(): report, traceback, sys.exit(1).
MainExcept ==
  /\ exit_code' = 1
  /\ pc' = "done"
  /\ log' = log \cup {"main_error"}

\* iconset_dir.mkdir(exist_ok=True) at module level; without parents=True
\* it raises when the resources directory is missing, before main() runs.
ModuleInit ==
  /\ pc = "import"
  /\ IF resources_exists
       THEN /\ iconset_exists' = TRUE
            /\ pc' = "main"
            /\ UNCHANGED <<log, exit_code>>
       ELSE /\ exit_code' = 1
            /\ pc' = "done"
            /\ log' = log \cup {"import_error"}
            /\ UNCHANGED iconset_exists
  /\ UNCHANGED <<variant, idx, resources_exists, svg_exists, files, tmp_files,
                 img, images, calls, writes, started, icns_calls, icns_result,
                 init_iconset, init_files>>

\* main() up to the try block: the rendering variant checks svg_path.
MainStart ==
  /\ pc = "main"
  /\ IF variant = "svg" /\ ~svg_exists
       THEN /\ log' = log \cup {"svg_missing"}
            /\ exit_code' = 1
            /\ pc' = "done"
       ELSE /\ pc' = "main_png"
            /\ UNCHANGED <<log, exit_code>>
  /\ UNCHANGED <<variant, idx, resources_exists, iconset_exists, svg_exists,
                 files, tmp_files, img, images, calls, writes, started,
                 icns_calls, icns_result, init_iconset, init_files>>

GenerateMainPng ==
  /\ pc = "main_png"
  /\ started' = started \cup {"generate_main_png"}
  /\ IF variant = "simple"
       THEN /\ img' = CreateBotIcon(1024)
            /\ calls' = calls \cup {1024}
       ELSE UNCHANGED <<img, calls>>
  /\ \E ok \in BOOLEAN :
       IF ok
         THEN /\ files' = [files EXCEPT !["icon.png"] =
                             IF variant = "simple" THEN img'.canvas
                                                   ELSE SvgToPng(1024)]
              /\ writes' = Append(writes, "icon.png")
              /\ pc' = StageAfter("main_png")
              /\ UNCHANGED <<log, exit_code>>
         ELSE /\ MainExcept
              /\ UNCHANGED <<files, writes>>
  /\ idx' = 1
  /\ UNCHANGED <<variant, resources_exists, iconset_exists, svg_exists,
                 tmp_files, images, icns_calls, icns_result,
                 init_iconset, init_files>>

\* One iteration of "for size, name in sizes".
GenerateIconsetStep ==
  /\ pc = "iconset"
  /\ idx \in 1..Len(sizes)
  /\ started' = started \cup {"generate_iconset"}
  /\ LET size == sizes[idx][1]
         name == sizes[idx][2]
     IN /\ IF variant = "simple"
             THEN /\ img' = CreateBotIcon(size)
                  /\ calls' = calls \cup {size}
             ELSE UNCHANGED <<img, calls>>
        /\ \E ok \in BOOLEAN :
             IF ok
               THEN /\ files' = [files EXCEPT ![name] =
                                   IF variant = "simple" THEN img'.canvas
                                                         ELSE SvgToPng(size)]
                    /\ writes' = Append(writes, name)
                    /\ IF idx = Len(sizes)
                         THEN pc' = StageAfter("iconset") /\ idx' = 1
                         ELSE pc' = pc /\ idx' = idx + 1
                    /\ UNCHANGED <<log, exit_code>>
               ELSE /\ MainExcept
                    /\ UNCHANGED <<files, writes, idx>>
  /\ UNCHANGED <<variant, resources_exists, iconset_exists, svg_exists,
                 tmp_files, images, icns_calls, icns_result,
                 init_iconset, init_files>>

\* generate_icns: subprocess.run(["iconutil", ...]) is started.
IcnsInvoke ==
  /\ pc = "icns"
  /\ started' = started \cup {"generate_icns"}
  /\ icns_calls' = icns_calls + 1
  /\ pc' = "icns_wait"
  /\ UNCHANGED <<variant, idx, resources_exists, iconset_exists, svg_exists,
                 files, tmp_files, img, images, calls, writes, icns_result,
                 log, exit_code, init_iconset, init_files>>

\* generate_icns: subprocess.run returns or raises.
IcnsReturn ==
  /\ pc = "icns_wait"
  /\ \E outcome \in IcnsOutcomes :
       /\ icns_result' = outcome
       /\ IF outcome = "ok"
            THEN /\ files' = [files EXCEPT !["icon.icns"] = <<1024, 1024>>]
                 /\ log' = log \cup {"icns_ok"}
                 /\ pc' = StageAfter("icns")
                 /\ UNCHANGED exit_code
            ELSE IF IcnsCaught(outcome)
              THEN /\ log' = log \cup {"icns_failed"}
                   /\ pc' = StageAfter("icns")
                   /\ UNCHANGED <<files, exit_code>>
              ELSE /\ MainExcept
                   /\ UNCHANGED files
  /\ idx' = 1
  /\ UNCHANGED <<variant, resources_exists, iconset_exists, svg_exists,
                 tmp_files, img, images, calls, writes, started, icns_calls,
                 init_iconset, init_files>>

\* The handler of generate_ico, or main()'s when generate_ico has none.
IcoExcept(err) ==
  IF IcoCaught(err)
    THEN /\ log' = log \cup {"ico_failed"}
         /\ pc' = StageAfter("ico")
         /\ UNCHANGED exit_code
    ELSE MainExcept

\* One iteration of "for size in ico_sizes" of generate_ico.
GenerateIcoStep ==
  /\ pc = "ico"
  /\ idx \in 1..Len(ico_sizes)
  /\ started' = started \cup {"generate_ico"}
  /\ LET size == ico_sizes[idx]
         advance == IF idx = Len(ico_sizes)
                      THEN pc' = "ico_save" /\ idx' = 1
                      ELSE pc' = pc /\ idx' = idx + 1
     IN IF variant = "simple"
          THEN /\ img' = CreateBotIcon(size)
               /\ calls' = calls \cup {size}
               /\ images' = Append(IF idx = 1 THEN <<>> ELSE images, img'.canvas)
               /\ advance
               /\ UNCHANGED <<tmp_files, log, exit_code>>
          ELSE /\ UNCHANGED <<img, calls>>
               /\ \E ok \in BOOLEAN :
                    IF ok
                      THEN /\ tmp_files' = tmp_files \cup {size}
                           /\ images' = Append(IF idx = 1 THEN <<>> ELSE images,
                                               SvgToPng(size))
                           /\ advance
                           /\ UNCHANGED <<log, exit_code>>
                      ELSE /\ IcoExcept("convert")
                           /\ UNCHANGED <<tmp_files, images, idx>>
  /\ UNCHANGED <<variant, resources_exists, iconset_exists, svg_exists, files,
                 writes, icns_calls, icns_result, init_iconset, init_files>>

\* images[0].save(ico_path, format='ICO', sizes=[...]) and, in the rendering
\* variant, the removal of the temporary PNGs.
GenerateIcoSave ==
  /\ pc = "ico_save"
  /\ \E ok \in BOOLEAN :
       IF ok
         THEN /\ files' = [files EXCEPT !["icon.ico"] = images[1]]
              /\ tmp_files' = {}
              /\ log' = log \cup {"ico_ok"}
              /\ pc' = StageAfter("ico")
              /\ UNCHANGED exit_code
         ELSE /\ IcoExcept("save")
              /\ UNCHANGED <<files, tmp_files>>
  /\ UNCHANGED <<variant, idx, resources_exists, iconset_exists, svg_exists,
                 img, images, calls, writes, started, icns_calls, icns_result,
                 init_iconset, init_files>>

\* The prints that close the try block of main(); the script returns.
MainFinish ==
  /\ pc = "finish"
  /\ log' = log \cup {"all_done"}
  /\ exit_code' = 0
  /\ pc' = "done"
  /\ UNCHANGED <<variant, idx, resources_exists, iconset_exists, svg_exists,
                 files, tmp_files, img, images, calls, writes, started,
                 icns_calls, icns_result, init_iconset, init_files>>

Next ==
  \/ ModuleInit
  \/ MainStart
  \/ GenerateMainPng
  \/ GenerateIconsetStep
  \/ IcnsInvoke
  \/ IcnsReturn
  \/ GenerateIcoStep
  \/ GenerateIcoSave
  \/ MainFinish

Spec == Init /\ [][Next]_vars

TypeOK ==
  /\ variant \in {"simple", "svg"}
  /\ pc \in {"import", "main", "main_png", "iconset", "icns", "icns_wait",
             "ico", "ico_save", "finish", "done"}
  /\ exit_code \in {-1, 0, 1}
  /\ icns_result \in IcnsOutcomes \cup {"none"}

----------------------------------------------------------------------------
(* Properties of create_bot_icon                                           *)

Abs(x) == IF x < 0 THEN -x ELSE x

Max(a, b) == IF a > b THEN a ELSE b

\* The pairs <<k, pixels computed for k * scale>> of an image.
ScaledValues(im) ==
  { <<102, im.margin>>, <<820, im.bg_size>>, <<180, im.corner_radius>>,
    <<360, im.head_width>>, <<280, im.head_height>>, <<120, im.off120>>,
    <<40, im.head_corner>>, <<200, im.off200>>, <<12, im.antenna_width>>,
    <<24, im.ball_radius>>, <<32, im.eye_radius>>, <<80, im.off80>>,
    <<40, im.off40>>, <<120, im.mouth_width>>, <<40, im.mouth_height>>,
    <<12, im.mouth_stroke>>, <<40, im.ear_width>>, <<80, im.ear_height>>,
    <<20, im.ear_corner>>, <<220, im.off220>>, <<60, im.off60>>,
    <<180, im.off180>> }

\* C1 as stated: every scaled constant of the image just drawn is
\* k * size / 1024 rounded to the nearest integer.
C1_RoundedToNearest ==
  img.size # 0 =>
    \A p \in ScaledValues(img) :
      2 * Abs(RefSize * p[2] - p[1] * img.size) <= RefSize

\* C1 amended: every scaled constant of the image just drawn is
\* k * size / 1024 truncated toward zero, each constant on its own:
\* v <= k * size / 1024 < v + 1.
C1_Truncated ==
  img.size # 0 =>
    \A p \in ScaledValues(img) :
      /\ RefSize * p[2] <= p[1] * img.size
      /\ p[1] * img.size < RefSize * (p[2] + 1)

\* At 16 pixels 102 * scale = 1.59 is drawn as 1, 820 * scale = 12.81 as 12.
C1_Witness == img.size = 16 /\ img.margin = 1 /\ img.bg_size = 12

\* C2 as stated: each bounding-box coordinate of the image just drawn (size
\* S2) is within 1 pixel of the coordinate at any manifest size S1 already
\* drawn in the run, multiplied by S2 / S1.
C2_SelfSimilarOnePixel ==
  img.size \in ManifestSizes =>
    \A s1 \in calls \cap ManifestSizes : \A sh \in ShapeNames : \A j \in 1..4 :
      Abs(img.shapes[sh][j] * s1 - CreateBotIcon(s1).shapes[sh][j] * img.size)
        <= s1

\* C2 amended: the coordinates differ by less than 2 * max(1, S2 / S1)
\* pixels.
C2_SelfSimilarScaledTolerance ==
  img.size \in ManifestSizes =>
    \A s1 \in calls \cap ManifestSizes : \A sh \in ShapeNames : \A j \in 1..4 :
      Abs(img.shapes[sh][j] * s1 - CreateBotIcon(s1).shapes[sh][j] * img.size)
        < 2 * Max(s1, img.size)

\* The 1024 pixel image is compared with the 16 pixel one drawn before it.
C2_Witness ==
  /\ img.size = 1024
  /\ 16 \in calls
  /\ img.shapes["background"] = <<102, 102, 922, 922>>
  /\ CreateBotIcon(16).shapes["background"] = <<1, 1, 13, 13>>

\* C8: the ears of the image just drawn are mirror images about
\* x = center_x.
C8_EarsMirrored ==
  img.size # 0 =>
    /\ img.center_x - img.shapes["left_ear"][1]
         = img.shapes["right_ear"][3] - img.center_x
    /\ img.center_x - img.shapes["left_ear"][3]
         = img.shapes["right_ear"][1] - img.center_x

\* C10: every feature of the image just drawn has an extent of at least one
\* pixel.
C10_PositiveExtent ==
  img.size # 0 =>
    /\ img.antenna_width >= 1
    /\ img.mouth_stroke >= 1
    /\ img.ball_radius >= 1
    /\ img.eye_radius >= 1
    /\ img.ear_width >= 1
    /\ img.ear_height >= 1
    /\ img.head_width >= 1
    /\ img.head_height >= 1
    /\ img.bg_size >= 1

----------------------------------------------------------------------------
(* Properties of the run                                                   *)

Stages == {"generate_main_png", "generate_iconset", "generate_icns",
           "generate_ico"}

IcnsFailed == icns_result \in {"notfound", "nonzero"}

IconsetComplete ==
  /\ files["icon.png"] = <<1024, 1024>>
  /\ \A n \in ManifestNames : files[n] # None

\* C3: in the procedural variant, once iconutil was not found or exited
\* non-zero, the failure is logged, the .ico stage runs next, icon.png and
\* the 13 iconset PNGs are still there, and the run ends with exit code 0.
C3_IcnsFailureNotFatal ==
  (variant = "simple" /\ IcnsFailed) =>
    /\ "icns_failed" \in log
    /\ pc \in {"ico", "ico_save", "finish", "done"}
    /\ (pc # "ico" => "generate_ico" \in started)
    /\ IconsetComplete
    /\ Cardinality({n \in ManifestNames : files[n] # None}) = 13
    /\ (pc = "done" => exit_code = 0)
    /\ exit_code \in {-1, 0}

C3_Witness ==
  /\ variant = "simple"
  /\ icns_result = "notfound"
  /\ pc = "done"
  /\ exit_code = 0
  /\ files["icon.ico"] = <<16, 16>>
  /\ files["icon.icns"] = None

\* C4 as stated: whenever main's stages were entered, every one of the four
\* stages has been attempted by the end of the run.
C4_NoStagePreventsLater ==
  (pc = "done" /\ started # {}) => started = Stages

\* C4 amended: a failure of generate_icns (iconutil missing or non-zero
\* exit) or of generate_ico (any exception) is logged and the run goes on to
\* the next stage; any other failure ends the run in main's handler with
\* exit code 1, and no later stage is attempted.
C4_PackagersContinueOthersAbort ==
  /\ IcnsFailed => (pc = "ico" \/ "generate_ico" \in started)
  /\ "ico_failed" \in log =>
       (pc \in {"finish", "done"} /\ "main_error" \notin log)
  /\ "main_error" \in log =>
       /\ pc = "done"
       /\ exit_code = 1
       /\ "generate_ico" \notin started
       /\ "all_done" \notin log
  /\ (pc = "done" /\ started # {} /\ "main_error" \notin log) =>
       (started = Stages /\ exit_code = 0)

C4_Witness ==
  /\ pc = "done"
  /\ icns_result = "nonzero"
  /\ "ico_failed" \in log
  /\ exit_code = 0

\* C5: in the rendering variant, when icon.svg is missing the run has
\* created or changed no file and no directory by the time it exits.
C5_NothingProducedWithoutSvg ==
  "svg_missing" \in log =>
    /\ exit_code = 1
    /\ files = init_files
    /\ tmp_files = {}
    /\ iconset_exists = init_iconset

\* C6 as stated: every size passed to create_bot_icon is a manifest size.
C6_OnlyManifestSizes == calls \subseteq ManifestSizes

\* C6 amended: every size passed to create_bot_icon is a manifest size or
\* 48, and 48 is passed by generate_ico only.
C6_ManifestSizesOr48 ==
  /\ calls \subseteq ManifestSizes \cup {48}
  /\ 48 \in calls => "generate_ico" \in started

C6_Witness == img.size = 48 /\ 48 \in calls /\ pc = "ico"

\* C7: in the procedural variant, starting without files in the iconset
\* directory, once icon.png and the 13 entries have been written without
\* error the directory holds exactly the 13 manifest names, each with a
\* canvas of its manifest size, and icon.png holds a 1024 x 1024 canvas.
C7_IconsetExact ==
  (/\ variant = "simple"
   /\ init_files[StaleName] = None
   /\ Len(writes) = 1 + Len(sizes)) =>
    /\ iconset_exists
    /\ {p \in IconsetPaths : files[p] # None} = ManifestNames
    /\ Cardinality({p \in IconsetPaths : files[p] # None}) = 13
    /\ \A i \in 1..Len(sizes) :
         files[sizes[i][2]] = <<sizes[i][1], sizes[i][1]>>
    /\ \A i, j \in 1..Len(sizes) : sizes[i][2] = sizes[j][2] => i = j
    /\ files["icon.png"] = <<1024, 1024>>

C7_Witness ==
  /\ variant = "simple"
  /\ ~init_iconset
  /\ pc = "icns"
  /\ Len(writes) = 14
  /\ files["icon_16x16.png"] = <<16, 16>>

\* C9: in both scripts iconutil is invoked at most once, only after icon.png
\* and the 13 iconset PNGs were written in manifest order in this run, never
\* on a partial iconset, and the .ico stage starts only after the invocation
\* has returned or failed.
C9_IconutilOnceAfterFullSet ==
  /\ icns_calls <= 1
  /\ icns_calls = 1 =>
       /\ writes = <<"icon.png">> \o [i \in 1..Len(sizes) |-> sizes[i][2]]
       /\ IconsetComplete
  /\ (pc \in {"ico", "ico_save"} \/ "generate_ico" \in started) =>
       /\ icns_calls = 1
       /\ icns_result \in {"ok", "nonzero", "notfound"}

C9_Witness ==
  /\ variant = "svg"
  /\ pc = "ico_save"
  /\ icns_calls = 1
  /\ icns_result = "ok"
  /\ Len(writes) = 14

====
